---- MODULE Spec2Model ----
(***************************************************************************)
(* A model of pauth's canonical request, src/requests/__init__.py:         *)
(* Request.__init__ (field parsing, client resolution), Request.validate   *)
(* (the four ordered checks) and the header accessors has_header and       *)
(* get_header.  One request object is alive at a time; its construction is *)
(* followed statement by statement through pc.                             *)
(***************************************************************************)
EXTENDS Integers, Sequences, FiniteSets, TLC

VARIABLES pc, required_parameters, method, headers, parameters, client,
          response_type, state, error, raised, calls, last_call,
          registered, authorized

vars == <<pc, required_parameters, method, headers, parameters, client,
          response_type, state, error, raised, calls, last_call,
          registered, authorized>>

\* ------------------------------------------------------------------ bounds
\* Largest number of entries of a header mapping.
MaxHeaders == 2

\* ------------------------------------------------------------------ values
\* Python's None, for the optional strings.
None == "None"

\* An argument of __init__: NoneArg is the default (None), Given(v) a value.
NoneArg == [given |-> FALSE]
Given(v) == [given |-> TRUE, value |-> v]

\* `x or {}`: None and the empty mapping are both falsy and become empty.
OrEmpty(a) == IF a.given /\ DOMAIN a.value # {} THEN a.value ELSE << >>

\* dict.get(key): the value, or None when the key is absent.
Get(p, key) == IF key \in DOMAIN p THEN p[key] ELSE None

Methods == {"GET", "POST"}

\* The characters header names are written in.
Chars == {"a", "A", "b", "B"}

\* str.lower() on one character, and on a name (a sequence of characters).
LowerChar(c) == CASE c = "A" -> "a" [] c = "B" -> "b" [] OTHER -> c
lower(s) == [i \in DOMAIN s |-> LowerChar(s[i])]

\* The header names stored and looked up: every casing of "ab" and of "b".
HeaderNames ==
  {n \in [1..2 -> Chars] : lower(n) = <<"a", "b">>} \cup {<<"b">>, <<"B">>}
HeaderValues == {"", "application/json"}

\* A dict of headers in its iteration order: <<name, value>> entries, names
\* unique (they are dict keys; names differing only in case are distinct keys).
HeaderMappings ==
  UNION {{hs \in [1..n -> HeaderNames \X HeaderValues] :
            \A i, j \in 1..n : i # j => hs[i][1] # hs[j][1]} : n \in 0..MaxHeaders}

\* The header name "Ab" with the value "application/json".
OneHeader == << <<<<"A", "b">>, "application/json">> >>

ParamNames == {"client_id", "client_secret", "response_type", "state"}
ClientIds == {"abc", "zzz"}
ParamValues(k) ==
  CASE k = "client_id" -> ClientIds
    [] k = "client_secret" -> {"s3cr3t"}
    [] k = "response_type" -> {"code", "token"}
    [] k = "state" -> {"xyz"}
AllParamValues == UNION {ParamValues(k) : k \in ParamNames}

\* Every parameter dict over ParamNames.
ParamMappings ==
  UNION {{f \in [K -> AllParamValues] : \A k \in K : f[k] \in ParamValues(k)} :
           K \in SUBSET ParamNames}

\* A variant is a subclass's required_parameters; the base class has ().
BaseRequired == {}
Variants == SUBSET ParamNames

\* ------------------------------------------------- clients and the registry
ClientCredentials(identifier, secret) == [identifier |-> identifier, secret |-> secret]
Client(credentials) == [credentials |-> credentials]
\* self.client = None
NoClient == [null |-> TRUE]

is_registered(c) == c.credentials.identifier \in registered
is_authorized(c) == c.credentials.identifier \in authorized

\* ------------------------------------------------------------------ errors
NoError == [type |-> "None"]
InvalidAuthorizationRequestError(message) ==
  [type |-> "InvalidAuthorizationRequestError", message |-> message]
UnknownClientError(c) == [type |-> "UnknownClientError", client |-> c]
UnauthorizedClientError(c) == [type |-> "UnauthorizedClientError", client |-> c]

\* ------------------------------------------------------- Request.__init__
\* Lines 38-43: the client derived from the parameters.
ClientOf_SecretKeyed(p) ==
  IF "client_secret" \in DOMAIN p
    THEN Client(ClientCredentials(Get(p, "client_id"), p["client_secret"]))
    ELSE NoClient

ClientOf(p) ==
  IF "client_id" \in DOMAIN p
    THEN Client(ClientCredentials(p["client_id"], Get(p, "client_secret")))
    ELSE NoClient

NoCall == [op |-> "None", header |-> << >>, found |-> FALSE, value |-> None]

\* Lines 34-46 of __init__, for the variant whose required_parameters is req:
\* everything up to the call of validate().
Request_init(m, h, p, req) ==
  /\ pc = "idle"
  /\ required_parameters' = req
  /\ method' = m
  /\ headers' = OrEmpty(h)
  /\ parameters' = OrEmpty(p)
  /\ client' = ClientOf(OrEmpty(p))
  /\ response_type' = Get(OrEmpty(p), "response_type")
  /\ state' = Get(OrEmpty(p), "state")
  /\ error' = NoError
  /\ raised' = 0
  /\ calls' = << >>
  /\ last_call' = NoCall
  /\ pc' = "unvalidated"
  /\ UNCHANGED <<registered, authorized>>

\* ------------------------------------------------------ Request.validate
has_required_parameters_Superset ==
  \A p \in required_parameters : p \in DOMAIN parameters

\* all(p in self.required_parameters for p in self.parameters)
has_required_parameters ==
  \A p \in DOMAIN parameters : p \in required_parameters

Raise(e) ==
  /\ error' = e
  /\ raised' = raised + 1
  /\ pc' = "rejected"

Called(fn, passed) == calls' = Append(calls, [fn |-> fn, passed |-> passed])

ValidateFields == <<required_parameters, method, headers, parameters, client,
                    response_type, state, last_call, registered, authorized>>

validate_required_Continue ==
  /\ pc = "unvalidated"
  /\ Called("_has_required_parameters", has_required_parameters)
  /\ IF ~has_required_parameters
       THEN /\ error' = InvalidAuthorizationRequestError(
                          "Some required request parameters are missing.")
            /\ raised' = raised + 1
            /\ pc' = "check_client"
       ELSE /\ pc' = "check_client"
            /\ UNCHANGED <<error, raised>>
  /\ UNCHANGED ValidateFields

\* Lines 56-57.
validate_required ==
  /\ pc = "unvalidated"
  /\ Called("_has_required_parameters", has_required_parameters)
  /\ IF ~has_required_parameters
       THEN Raise(InvalidAuthorizationRequestError(
                    "Some required request parameters are missing."))
       ELSE /\ pc' = "check_client"
            /\ UNCHANGED <<error, raised>>
  /\ UNCHANGED ValidateFields

\* Lines 59-60.
validate_client ==
  /\ pc = "check_client"
  /\ Called("client is None", client # NoClient)
  /\ IF client = NoClient
       THEN Raise(UnknownClientError(client))
       ELSE /\ pc' = "check_registered"
            /\ UNCHANGED <<error, raised>>
  /\ UNCHANGED ValidateFields

\* Lines 61-62.
validate_registered ==
  /\ pc = "check_registered"
  /\ Called("is_registered", is_registered(client))
  /\ IF ~is_registered(client)
       THEN Raise(UnknownClientError(client))
       ELSE /\ pc' = "check_authorized"
            /\ UNCHANGED <<error, raised>>
  /\ UNCHANGED ValidateFields

\* Lines 63-64, and the return of validate() and of __init__.
validate_authorized ==
  /\ pc = "check_authorized"
  /\ Called("is_authorized", is_authorized(client))
  /\ IF ~is_authorized(client)
       THEN Raise(UnauthorizedClientError(client))
       ELSE /\ pc' = "valid"
            /\ UNCHANGED <<error, raised>>
  /\ UNCHANGED ValidateFields

\* ------------------------------------------------------- header accessors
\* any(header.lower() == h.lower() for h in self.headers)
has_header(header) ==
  \E i \in DOMAIN headers : lower(header) = lower(headers[i][1])

Matches(header) == {i \in DOMAIN headers : lower(headers[i][1]) = lower(header)}
First(S) == CHOOSE i \in S : \A j \in S : i <= j

get_header_CaseSensitive(header) ==
  LET m == {i \in DOMAIN headers : headers[i][1] = header}
  IN IF m = {} THEN None ELSE headers[First(m)][2]

\* next((v for k, v in self.headers.items() if k.lower() == header.lower()), None)
get_header(header) ==
  IF Matches(header) = {} THEN None ELSE headers[First(Matches(header))][2]

RequestFields == <<pc, required_parameters, method, headers, parameters, client,
                   response_type, state, error, raised, calls,
                   registered, authorized>>

\* The validated request is handed on; its accessors are called on it.
HasHeader(h) ==
  /\ pc = "valid"
  /\ last_call' = [op |-> "has_header", header |-> h,
                   found |-> has_header(h), value |-> None]
  /\ UNCHANGED RequestFields

GetHeader(h) ==
  /\ pc = "valid"
  /\ last_call' = [op |-> "get_header", header |-> h,
                   found |-> FALSE, value |-> get_header(h)]
  /\ UNCHANGED RequestFields

\* The request (or the error) is handed off and the object dropped; the next
\* inbound request is built afresh.
Discard ==
  /\ pc \in {"valid", "rejected"}
  /\ pc' = "idle"
  /\ required_parameters' = BaseRequired
  /\ method' = None
  /\ headers' = << >>
  /\ parameters' = << >>
  /\ client' = NoClient
  /\ response_type' = None
  /\ state' = None
  /\ error' = NoError
  /\ raised' = 0
  /\ calls' = << >>
  /\ last_call' = NoCall
  /\ UNCHANGED <<registered, authorized>>

\* ---------------------------------------------------------- specifications
NoRequest ==
  /\ pc = "idle"
  /\ required_parameters = BaseRequired
  /\ method = None
  /\ headers = << >>
  /\ parameters = << >>
  /\ client = NoClient
  /\ response_type = None
  /\ state = None
  /\ error = NoError
  /\ raised = 0
  /\ calls = << >>
  /\ last_call = NoCall

\* Any registry content; the registry does not change while requests are served.
Init ==
  /\ NoRequest
  /\ registered \in SUBSET ClientIds
  /\ authorized \in SUBSET ClientIds

Validate ==
  \/ validate_required
  \/ validate_client
  \/ validate_registered
  \/ validate_authorized

Accessors == \E h \in HeaderNames : HasHeader(h) \/ GetHeader(h)

\* Every variant and every parameter dict, with a few header dicts.
Construct ==
  /\ pc = "idle"
  /\ \E m \in Methods, h \in {NoneArg, Given(<< >>), Given(OneHeader)},
        p \in {NoneArg} \cup {Given(f) : f \in ParamMappings}, req \in Variants :
       Request_init(m, h, p, req)

Next == Construct \/ Validate \/ Accessors \/ Discard

Spec == Init /\ [][Next]_vars

\* Every header dict, on a request that validates.
InitHeaders ==
  /\ NoRequest
  /\ registered = {"abc"}
  /\ authorized = {"abc"}

ConstructHeaders ==
  /\ pc = "idle"
  /\ \E h \in {NoneArg} \cup {Given(hs) : hs \in HeaderMappings} :
       Request_init("GET", h, Given([k \in {"client_id"} |-> "abc"]), {"client_id"})

NextHeaders == ConstructHeaders \/ Validate \/ Accessors \/ Discard

SpecHeaders == InitHeaders /\ [][NextHeaders]_vars

\* ------------------------------------------------------------------ claims
\* Construction has ended: validate() returned (valid) or raised (rejected).
Constructed == pc \in {"valid", "rejected"}
Keys == DOMAIN parameters
RejectedWith(type) == pc = "rejected" /\ error.type = type

\* C1: whenever a name of the variant's required_parameters is absent from the
\* parameter keys, construction fails with the invalid-request error.
C1_MissingRequiredIsInvalid ==
  (Constructed /\ required_parameters \ Keys # {})
    => RejectedWith("InvalidAuthorizationRequestError")

\* C2: when the keys include every required name (extra keys allowed) and the
\* client is registered and authorized, construction succeeds, with
\* response_type and state the direct lookups into the parameters.
C2_CompleteRequestIsValid ==
  (/\ Constructed
   /\ required_parameters \subseteq Keys
   /\ client # NoClient
   /\ is_registered(client)
   /\ is_authorized(client))
    => /\ pc = "valid"
       /\ response_type = Get(parameters, "response_type")
       /\ state = Get(parameters, "state")

\* C3: for every variant, parameters without a client_id key fail with
\* UnknownClientError, and the client is null.
C3_NoClientIdIsUnknown ==
  (Constructed /\ "client_id" \notin Keys)
    => RejectedWith("UnknownClientError") /\ client = NoClient

\* C4: a client_id whose client is not registered fails with
\* UnknownClientError.
C4_UnregisteredIsUnknown ==
  (Constructed /\ client # NoClient /\ ~is_registered(client))
    => RejectedWith("UnknownClientError")

\* C5: a client that is registered but not authorized fails with
\* UnauthorizedClientError, never with UnknownClientError.
C5_UnauthorizedIsUnauthorized ==
  (/\ Constructed
   /\ client # NoClient
   /\ is_registered(client)
   /\ ~is_authorized(client))
    => RejectedWith("UnauthorizedClientError")

\* C6: on a request's headers, for every lookup name h (any casing of a stored
\* name, or a name not stored), has_header(h) is true iff get_header(h) is not
\* None; and what the accessors returned is what the case-insensitive
\* comparison of names gives.
C6_HasIffGet ==
  pc = "valid" =>
    /\ \A h \in HeaderNames : has_header(h) <=> get_header(h) # None
    /\ last_call.op = "has_header" =>
         (last_call.found <=>
            \E i \in DOMAIN headers : lower(headers[i][1]) = lower(last_call.header))
    /\ last_call.op = "get_header" =>
         (last_call.value # None <=>
            \E i \in DOMAIN headers : lower(headers[i][1]) = lower(last_call.header))

\* has_header answered true for a name stored only in another casing.
C6_Witness ==
  /\ pc = "valid"
  /\ last_call.op = "has_header"
  /\ last_call.found
  /\ \A i \in DOMAIN headers : headers[i][1] # last_call.header

\* C7: a valid request has (a) every required name among its parameter keys
\* and (b) a client that is non-null, registered and authorized.
C7_ValidMeansComplete ==
  pc = "valid" =>
    /\ required_parameters \subseteq Keys
    /\ client # NoClient
    /\ is_registered(client)
    /\ is_authorized(client)

\* The order of validate()'s checks.
CheckOrder == <<"_has_required_parameters", "client is None",
                "is_registered", "is_authorized">>
CalledFn(fn) == \E i \in DOMAIN calls : calls[i].fn = fn

\* C8: validate() runs its checks in the order required-parameters, client
\* non-null, is_registered, is_authorized and stops at the first failure: no
\* registry call after a failed required-parameter check, is_registered only
\* on a non-null client, is_authorized only after is_registered returned
\* true, and exactly one error per rejected request.
C8_OrderedShortCircuit ==
  /\ Len(calls) <= Len(CheckOrder)
  /\ \A i \in DOMAIN calls : calls[i].fn = CheckOrder[i]
  /\ \A i \in DOMAIN calls : i < Len(calls) => calls[i].passed
  /\ (calls # << >> /\ ~calls[Len(calls)].passed) => pc = "rejected"
  /\ (CalledFn("_has_required_parameters") /\ ~calls[1].passed) =>
       ~CalledFn("is_registered") /\ ~CalledFn("is_authorized")
  /\ CalledFn("is_registered") => client # NoClient
  /\ CalledFn("is_authorized") => calls[3].passed /\ is_registered(client)
  /\ pc = "rejected" => raised = 1 /\ error # NoError /\ ~calls[Len(calls)].passed
  /\ pc = "valid" => raised = 0 /\ error = NoError /\ Len(calls) = Len(CheckOrder)

\* A request rejected by the required-parameter check although its client is
\* unregistered: the registry was not asked.
C8_Witness ==
  /\ RejectedWith("InvalidAuthorizationRequestError")
  /\ client # NoClient
  /\ ~is_registered(client)
  /\ Len(calls) = 1

ClientFromParameters ==
  /\ client # NoClient <=> "client_id" \in Keys
  /\ client # NoClient =>
       /\ client.credentials.identifier = parameters["client_id"]
       /\ client.credentials.secret = Get(parameters, "client_secret")

\* C9: from the end of the construction steps that precede validation on
\* (valid or rejected included), client is non-null iff the parameters have a
\* client_id key, with identifier = parameters['client_id'] and secret =
\* parameters['client_secret'] or None; validate() changes neither client
\* nor parameters.
C9_ClientFollowsParameters ==
  /\ [](pc # "idle" => ClientFromParameters)
  /\ [][pc # "idle" /\ ~Constructed => UNCHANGED <<client, parameters>>]_vars

\* A constructed request with a client_id and no client_secret.
C9_Witness ==
  /\ Constructed
  /\ "client_id" \in Keys
  /\ "client_secret" \notin Keys
  /\ client # NoClient
  /\ client.credentials.secret = None

====
